---- MODULE Spec2Model ----
(***************************************************************************)
(* A model of four parts of zadig:                                         *)
(*   - the job executor's step runner, RunSteps / runStep                  *)
(*     (pkg/microservice/jobexecutor/core/service/step/step.go);           *)
(*   - the concurrent values-file fetch and merge, GetMergedYamlContent    *)
(*     (pkg/microservice/aslan/core/environment/service/renderset.go);     *)
(*   - the drift detection of a stored values file, SyncYamlFromSource     *)
(*     (renderset.go);                                                     *)
(*   - the redaction of secrets, maskSecret / maskSecretEnvs, and the      *)
(*     streaming of a command's output, handleCmdOutput (step.go).         *)
(* Each part has its own specification (RunSpec, KindSpec, MergeSpec,      *)
(* SyncSpec, ...); the variables of the other parts stay at their initial  *)
(* value.                                                                  *)
(***************************************************************************)
EXTENDS Integers, Sequences, FiniteSets, TLC

VARIABLES
    \* ---- RunSteps ----
    steps,        \* the []*meta.Step argument: records [StepType, Onfailure]
    idx,          \* position of the range loop in steps (1-based)
    hasFailed,    \* local hasFailed of RunSteps
    respErr,      \* local respErr of RunSteps
    rpc,          \* "loop" while RunSteps iterates, "returned" after its return
    ret,          \* the value RunSteps returned
    calls,        \* history: the calls of runStep, in the order they were made
    \* ---- GetMergedYamlContent ----
    paths,          \* the paths argument
    mpc,            \* position of the calling goroutine
    repoType,       \* detail.Type, once GetCodeHost returned
    gitCmdsRuns,    \* history: number of calls of command.RunGitCmds
    spawned,        \* number of iterations of the spawning loop done so far
    wg,             \* the counter of the sync.WaitGroup
    errLock,        \* the holder of the mutex errLock, NoUnit when it is free
    errorList,      \* errorList.Errors
    fileContentMap, \* the sync.Map: a function from the stored keys to contents
    upc,            \* position of each fetch goroutine, by index
    ulocal,         \* what each goroutine's fetch returned (fileContent, err)
    usnap,          \* the error slice a goroutine read inside multierror.Append
    mergeCalls,     \* history: the arguments of the calls of yamlutil.Merge
    storeOrder,     \* history: the indexes of the goroutines, in the order of their Store
    mret,           \* what GetMergedYamlContent returned
    \* ---- SyncYamlFromSource ----
    yamlData,       \* the yamlData argument (present = FALSE: nil)
    curValue,       \* the curValue argument
    spc,            \* position of SyncYamlFromSource
    slookup,        \* how the lookup of the variable set ended ("none": not made)
    sfetched,       \* what the lookup or the download returned
    sops,           \* history: the calls made to collaborators, in order
    sret,           \* what SyncYamlFromSource returned
    \* ---- maskSecretEnvs ----
    message,        \* the message argument, a sequence of characters
    secretEnvs,     \* the list argument: secretEnvs of maskSecretEnvs, secrets of maskSecret
    kpc,            \* "call" before the call, "returned" after maskSecretEnvs,
                    \* "returnedSecret" after maskSecret
    masked,         \* what the call returned
    \* ---- handleCmdOutput ----
    pipe,               \* the bytes of the pipe not read yet
    needPersistentLog,  \* the needPersistentLog argument
    outSecretEnvs,      \* the secretEnvs argument of handleCmdOutput
    hpc,                \* "reading" inside the loop, "returned" after it
    readErr,            \* TRUE once ReadBytes failed with an error other than io.EOF
    consumed,           \* history: the lines ReadBytes returned without an error
    discarded,          \* history: the bytes ReadBytes returned together with io.EOF
    stdout,             \* the live sink: what fmt.Printf wrote, call by call
    logFile,            \* the log file: what util.WriteFile appended, call by call
    writes              \* history: the calls of util.WriteFile, [data, ok]

runVars == <<steps, idx, hasFailed, respErr, rpc, ret, calls>>

mergeVars == <<paths, mpc, repoType, gitCmdsRuns, spawned, wg, errLock, errorList,
               fileContentMap, upc, ulocal, usnap, mergeCalls, storeOrder, mret>>

syncVars == <<yamlData, curValue, spc, slookup, sfetched, sops, sret>>

maskVars == <<message, secretEnvs, kpc, masked>>

handleVars == <<pipe, needPersistentLog, outSecretEnvs, hpc, readErr, consumed,
                discarded, stdout, logFile, writes>>

vars == <<runVars, mergeVars, syncVars, maskVars, handleVars>>

\* the variables RunSteps leaves alone
notRunVars == <<mergeVars, syncVars, maskVars, handleVars>>

\* the variables GetMergedYamlContent leaves alone
notMergeVars == <<runVars, syncVars, maskVars, handleVars>>

\* the variables SyncYamlFromSource leaves alone
notSyncVars == <<runVars, mergeVars, maskVars, handleVars>>

\* the variables maskSecretEnvs leaves alone
notMaskVars == <<runVars, mergeVars, syncVars, handleVars>>

\* the variables handleCmdOutput leaves alone
notHandleVars == <<runVars, mergeVars, syncVars, maskVars>>

-----------------------------------------------------------------------------
(* Bounds *)
MaxSteps == 3
MaxKindSteps == 2
MaxPaths == 2
MaxTextLen == 3
MaxEntries == 2
MaxLines == 2

-----------------------------------------------------------------------------
(* RunSteps and runStep *)

\* the nil error
NoErr == [kind |-> "nil", at |-> 0]

\* the case labels of the switch in runStep
KnownTypes ==
    {"shell", "git", "docker_build", "tools", "archive", "junit_report",
     "tar_archive", "sonar_check"}

\* step types offered to the runner: the case labels, the name "tool_install"
\* and a type that is no kind of step at all
StepTypes == KnownTypes \cup {"tool_install", "no_such_type"}

\* the types of the step lists of RunInit: two case labels that stand for the
\* eight (RunSteps reads nothing of a step but Onfailure and the error runStep
\* returns), and the types that fall to the default case.  KindInit draws
\* from all of StepTypes.
RunTypes == {"shell", "git", "tools", "tool_install", "no_such_type"}

\* meta.Step, as far as RunSteps and runStep read it
Steps(types) == [StepType : types, Onfailure : BOOLEAN]

\* the step lists of at most n steps with types among types
StepLists(types, n) == UNION {[1..k -> Steps(types)] : k \in 0..n}

\* what the executor of a dispatched step does: its constructor fails, its Run
\* fails, or both succeed
Outcomes == {"ok", "ctor_err", "run_err"}

\* ExecutorOf with the constructor of the archive case in the tar_archive case
ExecutorOf_WrongCase(stepType) ==
    CASE stepType = "shell"        -> "ShellStep"
      [] stepType = "git"          -> "GitStep"
      [] stepType = "docker_build" -> "DockerBuildStep"
      [] stepType = "tools"        -> "ToolInstallStep"
      [] stepType = "archive"      -> "ArchiveStep"
      [] stepType = "junit_report" -> "JunitReportStep"
      [] stepType = "tar_archive"  -> "ArchiveStep"
      [] stepType = "sonar_check"  -> "SonarCheckStep"
      [] OTHER                     -> "none"

\* the constructor each case of the switch calls ("none": the default case)
ExecutorOf(stepType) ==
    CASE stepType = "shell"        -> "ShellStep"
      [] stepType = "git"          -> "GitStep"
      [] stepType = "docker_build" -> "DockerBuildStep"
      [] stepType = "tools"        -> "ToolInstallStep"
      [] stepType = "archive"      -> "ArchiveStep"
      [] stepType = "junit_report" -> "JunitReportStep"
      [] stepType = "tar_archive"  -> "TararchiveStep"
      [] stepType = "sonar_check"  -> "SonarCheckStep"
      [] OTHER                     -> "none"

\* runStep whose default case returns nil instead of an error
runStep_UnknownIsNil(i, step, outcome) ==
    LET executor == ExecutorOf(step.StepType)
        call == [step |-> i, outcome |-> outcome, executor |-> executor] IN
    IF executor = "none"
      THEN [call |-> call, constructed |-> FALSE, ran |-> FALSE, err |-> NoErr]
      ELSE IF outcome = "ctor_err"
        THEN [call |-> call, constructed |-> FALSE, ran |-> FALSE,
              err |-> [kind |-> "ctor", at |-> i]]
        ELSE IF outcome = "run_err"
          THEN [call |-> call, constructed |-> TRUE, ran |-> TRUE,
                err |-> [kind |-> "run", at |-> i]]
          ELSE [call |-> call, constructed |-> TRUE, ran |-> TRUE,
                err |-> NoErr]

\* runStep on the step at position i, whose executor behaves as outcome says.
\* The result records the call (step, outcome), the executor chosen, whether it
\* was constructed, whether its Run was called, and the error returned (errors
\* of different calls are different values: at is the position of the step
\* that produced it).
runStep(i, step, outcome) ==
    LET executor == ExecutorOf(step.StepType)
        call == [step |-> i, outcome |-> outcome, executor |-> executor] IN
    IF executor = "none"
      THEN [call |-> call, constructed |-> FALSE, ran |-> FALSE,
            err |-> [kind |-> "unknown_type", at |-> i]]
      ELSE IF outcome = "ctor_err"
        THEN [call |-> call, constructed |-> FALSE, ran |-> FALSE,
              err |-> [kind |-> "ctor", at |-> i]]
        ELSE IF outcome = "run_err"
          THEN [call |-> call, constructed |-> TRUE, ran |-> TRUE,
                err |-> [kind |-> "run", at |-> i]]
          ELSE [call |-> call, constructed |-> TRUE, ran |-> TRUE,
                err |-> NoErr]

\* ShouldSkip with the continue statement lost: nothing is skipped
ShouldSkip_Never(failed, step) == FALSE

\* ShouldSkip with the test of Onfailure lost: every step after a failure is skipped
ShouldSkip_IgnoreOnfailure(failed, step) == failed

\* the guard of the continue statement
ShouldSkip(failed, step) == failed /\ ~step.Onfailure

\* NextRespErr assigning respErr after every call: a success clears the error
NextRespErr_ClearOnSuccess(old, err) == err

\* NextRespErr keeping the first error instead of the most recent one
NextRespErr_KeepFirst(old, err) == IF old # NoErr THEN old ELSE err

\* respErr after a call of runStep that returned err
NextRespErr(old, err) == IF err # NoErr THEN err ELSE old

\* NextHasFailed following the last call only: a success resets the flag
NextHasFailed_LastCallOnly(old, err) == err # NoErr

\* hasFailed after a call of runStep that returned err
NextHasFailed(old, err) == IF err # NoErr THEN TRUE ELSE old

\* the state of RunSteps on entry, given its argument
RunEntry(list) ==
    /\ steps = list
    /\ idx = 1
    /\ hasFailed = FALSE
    /\ respErr = NoErr
    /\ rpc = "loop"
    /\ ret = NoErr
    /\ calls = <<>>

\* one iteration of the loop that takes the continue
SkipStep ==
    /\ rpc = "loop"
    /\ idx <= Len(steps)
    /\ ShouldSkip(hasFailed, steps[idx])
    /\ idx' = idx + 1
    /\ UNCHANGED <<steps, hasFailed, respErr, rpc, ret, calls>>
    /\ UNCHANGED notRunVars

\* DispatchStep calling runStep a second time for the same step
DispatchStep_Twice ==
    /\ rpc = "loop"
    /\ idx <= Len(steps)
    /\ ~ShouldSkip(hasFailed, steps[idx])
    /\ \E outcome \in Outcomes :
         LET r == runStep(idx, steps[idx], outcome) IN
         /\ calls' = Append(Append(calls, r), r)
         /\ hasFailed' = NextHasFailed(hasFailed, r.err)
         /\ respErr' = NextRespErr(respErr, r.err)
    /\ idx' = idx + 1
    /\ UNCHANGED <<steps, rpc, ret>>
    /\ UNCHANGED notRunVars

\* one iteration of the loop that calls runStep
DispatchStep ==
    /\ rpc = "loop"
    /\ idx <= Len(steps)
    /\ ~ShouldSkip(hasFailed, steps[idx])
    /\ \E outcome \in Outcomes :
         LET r == runStep(idx, steps[idx], outcome) IN
         /\ calls' = Append(calls, r)
         /\ hasFailed' = NextHasFailed(hasFailed, r.err)
         /\ respErr' = NextRespErr(respErr, r.err)
    /\ idx' = idx + 1
    /\ UNCHANGED <<steps, rpc, ret>>
    /\ UNCHANGED notRunVars

\* the loop is over: return respErr
ReturnSteps ==
    /\ rpc = "loop"
    /\ idx > Len(steps)
    /\ rpc' = "returned"
    /\ ret' = respErr
    /\ UNCHANGED <<steps, idx, hasFailed, respErr, calls>>
    /\ UNCHANGED notRunVars

RunNext == SkipStep \/ DispatchStep \/ ReturnSteps

-----------------------------------------------------------------------------
(* GetMergedYamlContent *)

\* errLock when no goroutine holds it
NoUnit == -1

\* the file names a caller may ask for (a list may name a file twice)
PathNames == {"a.yaml", "b.yaml"}

\* the path lists of at most n paths
PathLists(n) == UNION {[1..k -> PathNames] : k \in 0..n}

\* the indexes of the range loop over paths (0-based, as in the code)
Units == 0 .. (Len(paths) - 1)

\* the file path of the goroutine started with index u
PathOf(u) == paths[u + 1]

\* A file's bytes: a YAML document, as the set of its <<key, value>> pairs,
\* or bytes that are no YAML document (valid = FALSE).
EmptyContent == [valid |-> TRUE, kv |-> {}]

Contents ==
    {[valid |-> TRUE, kv |-> {<<"image", "v1">>}],
     [valid |-> TRUE, kv |-> {<<"image", "v2">>, <<"replicas", "3">>}],
     [valid |-> FALSE, kv |-> {}]}

\* the nil error of GetMergedYamlContent
NilErr == [kind |-> "nil", errors |-> <<>>]

\* e.ErrListRepoDir.AddDesc(...)
ErrListRepoDir == [kind |-> "ErrListRepoDir", errors |-> <<>>]

\* errors.Wrapf(err, "failed to merge files")
ErrMergeFiles == [kind |-> "failed to merge files", errors |-> <<>>]

\* config.S3StoragePath() and arg.Repo
S3StoragePath == "s3"
Repo == "repo"

\* path.Join(path.Join(config.S3StoragePath(), arg.Repo), filePath), as the
\* sequence of its components
RelativePath(filePath) == <<S3StoragePath, Repo, filePath>>

\* errors.Wrapf(errDownload, "failed to download file from git, path %s", filePath)
DownloadEntry(filePath) ==
    [op |-> "download", path |-> <<filePath>>, cause |-> "errDownload"]

\* errors.Wrapf(errReadFile, "failed to read file from git repo, relative path %s", ...)
ReadFileEntry(filePath) ==
    [op |-> "read", path |-> RelativePath(filePath), cause |-> "errReadFile"]

\* the error a goroutine appends when its fetch failed
EntryOf(u) ==
    IF repoType = "other" THEN ReadFileEntry(PathOf(u)) ELSE DownloadEntry(PathOf(u))

\* ErrorOrNil that reports no error whatever the list holds
ErrorOrNil_AlwaysNil(list) == NilErr

\* errorList.ErrorOrNil()
ErrorOrNil(list) ==
    IF Len(list) = 0 THEN NilErr ELSE [kind |-> "multierror", errors |-> list]

\* LockAvailable without mutual exclusion: the appends are not serialised
LockAvailable_Always(lock) == TRUE

\* errLock.Lock() returns only when no goroutine holds the mutex
LockAvailable(lock) == lock = NoUnit

\* WaitReleased without the barrier: the caller goes on while goroutines run
WaitReleased_Always(counter) == TRUE

\* wg.Wait() returns only when the counter is zero
WaitReleased(counter) == counter = 0

\* the loop that fills contentArr: the values stored under the keys i .. n-1,
\* in the order of the keys, a key with nothing stored being passed over
RECURSIVE ContentArr(_, _, _)
ContentArr(map, i, n) ==
    IF i >= n THEN <<>>
    ELSE IF i \in DOMAIN map
      THEN <<map[i]>> \o ContentArr(map, i + 1, n)
      ELSE ContentArr(map, i + 1, n)

\* the keys of a document
KeysOf(kv) == {p[1] : p \in kv}

\* yamlutil.Merge on two documents: the later one wins on a key of both
MergeTwo(a, b) == b \cup {p \in a : p[1] \notin KeysOf(b)}

RECURSIVE MergeAll(_)
MergeAll(arr) ==
    IF Len(arr) = 0 THEN {}
    ELSE MergeTwo(MergeAll(SubSeq(arr, 1, Len(arr) - 1)), arr[Len(arr)].kv)

\* yamlutil.Merge: an error when a fragment is no YAML document
YamlMerge(arr) ==
    IF \E k \in 1..Len(arr) : ~arr[k].valid
      THEN [content |-> EmptyContent, failed |-> TRUE]
      ELSE [content |-> [valid |-> TRUE, kv |-> MergeAll(arr)], failed |-> FALSE]

\* the state of GetMergedYamlContent on entry, given its paths argument
MergeEntry(list) ==
    /\ paths = list
    /\ mpc = "getCodeHost"
    /\ repoType = "unset"
    /\ gitCmdsRuns = 0
    /\ spawned = 0
    /\ wg = 0
    /\ errLock = NoUnit
    /\ errorList = <<>>
    /\ fileContentMap = <<>>
    /\ upc = [u \in 0 .. (Len(list) - 1) |-> "unstarted"]
    /\ ulocal = [u \in 0 .. (Len(list) - 1) |-> [status |-> "none", content |-> EmptyContent]]
    /\ usnap = [u \in 0 .. (Len(list) - 1) |-> <<>>]
    /\ mergeCalls = <<>>
    /\ storeOrder = <<>>
    /\ mret = [content |-> EmptyContent, err |-> NilErr]

\* the variables of GetMergedYamlContent while RunSteps is modelled
MergeIdle == MergeEntry(<<>>)

\* return from GetMergedYamlContent
Return(content, err) ==
    /\ mpc' = "returned"
    /\ mret' = [content |-> content, err |-> err]

\* GetCodeHost going on to the loop whatever detail.Type is
GetCodeHost_NoGitCmds ==
    /\ mpc = "getCodeHost"
    /\ \E r \in {"fail", "gitlab", "other"} :
         IF r = "fail"
           THEN Return(EmptyContent, ErrListRepoDir) /\ UNCHANGED repoType
           ELSE /\ repoType' = r
                /\ mpc' = "spawn"
                /\ UNCHANGED mret
    /\ UNCHANGED <<paths, gitCmdsRuns, spawned, wg, errLock, errorList,
                   fileContentMap, upc, ulocal, usnap, mergeCalls, storeOrder>>
    /\ UNCHANGED notMergeVars

\* systemconfig.New().GetCodeHost(arg.CodehostID), and the test of detail.Type
GetCodeHost ==
    /\ mpc = "getCodeHost"
    /\ \E r \in {"fail", "gitlab", "other"} :
         IF r = "fail"
           THEN Return(EmptyContent, ErrListRepoDir) /\ UNCHANGED repoType
           ELSE /\ repoType' = r
                /\ mpc' = IF r = "other" THEN "gitCmds" ELSE "spawn"
                /\ UNCHANGED mret
    /\ UNCHANGED <<paths, gitCmdsRuns, spawned, wg, errLock, errorList,
                   fileContentMap, upc, ulocal, usnap, mergeCalls, storeOrder>>
    /\ UNCHANGED notMergeVars

\* command.RunGitCmds for a repository of type other
RunGitCmds ==
    /\ mpc = "gitCmds"
    /\ gitCmdsRuns' = gitCmdsRuns + 1
    /\ \E ok \in BOOLEAN :
         IF ok THEN mpc' = "spawn" /\ UNCHANGED mret
               ELSE Return(EmptyContent, ErrListRepoDir)
    /\ UNCHANGED <<paths, repoType, spawned, wg, errLock, errorList,
                   fileContentMap, upc, ulocal, usnap, mergeCalls, storeOrder>>
    /\ UNCHANGED notMergeVars

\* one iteration of the range loop: wg.Add(1) and the go statement
Spawn ==
    /\ mpc = "spawn"
    /\ spawned < Len(paths)
    /\ wg' = wg + 1
    /\ upc' = [upc EXCEPT ![spawned] = "fetch"]
    /\ spawned' = spawned + 1
    /\ UNCHANGED <<paths, mpc, repoType, gitCmdsRuns, errLock, errorList,
                   fileContentMap, ulocal, usnap, mergeCalls, storeOrder, mret>>
    /\ UNCHANGED notMergeVars

\* the fetch of goroutine u returned: with an error, or with the file's bytes
Fetched(u) ==
    /\ \E r \in {[status |-> "fail", content |-> EmptyContent]}
                \cup {[status |-> "ok", content |-> c] : c \in Contents} :
         /\ ulocal' = [ulocal EXCEPT ![u] = r]
         /\ upc' = [upc EXCEPT ![u] = IF r.status = "fail" THEN "lock" ELSE "store"]
    /\ UNCHANGED <<paths, mpc, repoType, gitCmdsRuns, spawned, wg, errLock, errorList,
                   fileContentMap, usnap, mergeCalls, storeOrder, mret>>
    /\ UNCHANGED notMergeVars

\* fsservice.DownloadFileFromSource in goroutine u (!isOtherTypeRepo)
DownloadFile(u) ==
    /\ upc[u] = "fetch"
    /\ repoType # "other"
    /\ Fetched(u)

\* os.ReadFile in goroutine u (isOtherTypeRepo)
ReadFile(u) ==
    /\ upc[u] = "fetch"
    /\ repoType = "other"
    /\ Fetched(u)

\* errLock.Lock() in goroutine u
Lock(u) ==
    /\ upc[u] = "lock"
    /\ LockAvailable(errLock)
    /\ errLock' = u
    /\ upc' = [upc EXCEPT ![u] = "append"]
    /\ UNCHANGED <<paths, mpc, repoType, gitCmdsRuns, spawned, wg, errorList,
                   fileContentMap, ulocal, usnap, mergeCalls, storeOrder, mret>>
    /\ UNCHANGED notMergeVars

\* multierror.Append in goroutine u reads the slice errorList.Errors ...
AppendRead(u) ==
    /\ upc[u] = "append"
    /\ usnap' = [usnap EXCEPT ![u] = errorList]
    /\ upc' = [upc EXCEPT ![u] = "write"]
    /\ UNCHANGED <<paths, mpc, repoType, gitCmdsRuns, spawned, wg, errLock, errorList,
                   fileContentMap, ulocal, mergeCalls, storeOrder, mret>>
    /\ UNCHANGED notMergeVars

\* ... and writes it back with the new entry at its end
AppendWrite(u) ==
    /\ upc[u] = "write"
    /\ errorList' = Append(usnap[u], EntryOf(u))
    /\ usnap' = [usnap EXCEPT ![u] = <<>>]
    /\ upc' = [upc EXCEPT ![u] = "unlock"]
    /\ UNCHANGED <<paths, mpc, repoType, gitCmdsRuns, spawned, wg, errLock,
                   fileContentMap, ulocal, mergeCalls, storeOrder, mret>>
    /\ UNCHANGED notMergeVars

\* Unlock with the return statement lost: the goroutine goes on to Store
Unlock_NoReturn(u) ==
    /\ upc[u] = "unlock"
    /\ errLock' = NoUnit
    /\ upc' = [upc EXCEPT ![u] = "store"]
    /\ UNCHANGED <<paths, mpc, repoType, gitCmdsRuns, spawned, wg, errorList,
                   fileContentMap, ulocal, usnap, mergeCalls, storeOrder, mret>>
    /\ UNCHANGED notMergeVars

\* errLock.Unlock() and the return statement in goroutine u
Unlock(u) ==
    /\ upc[u] = "unlock"
    /\ errLock' = NoUnit
    /\ upc' = [upc EXCEPT ![u] = "exit"]
    /\ UNCHANGED <<paths, mpc, repoType, gitCmdsRuns, spawned, wg, errorList,
                   fileContentMap, ulocal, usnap, mergeCalls, storeOrder, mret>>
    /\ UNCHANGED notMergeVars

\* Store that keys the content by its order of arrival instead of its index
Store_ByArrival(u) ==
    /\ upc[u] = "store"
    /\ LET key == Len(storeOrder) IN
       fileContentMap' = [k \in DOMAIN fileContentMap \cup {key} |->
                            IF k = key THEN ulocal[u].content ELSE fileContentMap[k]]
    /\ storeOrder' = Append(storeOrder, u)
    /\ upc' = [upc EXCEPT ![u] = "exit"]
    /\ UNCHANGED <<paths, mpc, repoType, gitCmdsRuns, spawned, wg, errLock, errorList,
                   ulocal, usnap, mergeCalls, mret>>
    /\ UNCHANGED notMergeVars

\* fileContentMap.Store(index, fileContent) in goroutine u
Store(u) ==
    /\ upc[u] = "store"
    /\ fileContentMap' = [k \in DOMAIN fileContentMap \cup {u} |->
                            IF k = u THEN ulocal[u].content ELSE fileContentMap[k]]
    /\ storeOrder' = Append(storeOrder, u)
    /\ upc' = [upc EXCEPT ![u] = "exit"]
    /\ UNCHANGED <<paths, mpc, repoType, gitCmdsRuns, spawned, wg, errLock, errorList,
                   ulocal, usnap, mergeCalls, mret>>
    /\ UNCHANGED notMergeVars

\* Done without the defer: wg.Done() is reached on the path of Store only
Done_NotDeferred(u) ==
    /\ upc[u] = "exit"
    /\ wg' = IF ulocal[u].status = "fail" THEN wg ELSE wg - 1
    /\ upc' = [upc EXCEPT ![u] = "done"]
    /\ UNCHANGED <<paths, mpc, repoType, gitCmdsRuns, spawned, errLock, errorList,
                   fileContentMap, ulocal, usnap, mergeCalls, storeOrder, mret>>
    /\ UNCHANGED notMergeVars

\* the deferred wg.Done() of goroutine u
Done(u) ==
    /\ upc[u] = "exit"
    /\ wg' = wg - 1
    /\ upc' = [upc EXCEPT ![u] = "done"]
    /\ UNCHANGED <<paths, mpc, repoType, gitCmdsRuns, spawned, errLock, errorList,
                   fileContentMap, ulocal, usnap, mergeCalls, storeOrder, mret>>
    /\ UNCHANGED notMergeVars

\* the loop is over and wg.Wait() returns
Wait ==
    /\ mpc = "spawn"
    /\ spawned = Len(paths)
    /\ WaitReleased(wg)
    /\ mpc' = "check"
    /\ UNCHANGED <<paths, repoType, gitCmdsRuns, spawned, wg, errLock, errorList,
                   fileContentMap, upc, ulocal, usnap, mergeCalls, storeOrder, mret>>
    /\ UNCHANGED notMergeVars

\* err = errorList.ErrorOrNil(); if err != nil { return "", err }
CheckErrors ==
    /\ mpc = "check"
    /\ LET err == ErrorOrNil(errorList) IN
         IF err # NilErr THEN Return(EmptyContent, err)
                         ELSE mpc' = "merge" /\ UNCHANGED mret
    /\ UNCHANGED <<paths, repoType, gitCmdsRuns, spawned, wg, errLock, errorList,
                   fileContentMap, upc, ulocal, usnap, mergeCalls, storeOrder>>
    /\ UNCHANGED notMergeVars

\* contentArr is filled, yamlutil.Merge is called and its result returned
MergeContents ==
    /\ mpc = "merge"
    /\ LET contentArr == ContentArr(fileContentMap, 0, Len(paths))
           merged == YamlMerge(contentArr) IN
         /\ mergeCalls' = Append(mergeCalls, contentArr)
         /\ IF merged.failed THEN Return(EmptyContent, ErrMergeFiles)
                             ELSE Return(merged.content, NilErr)
    /\ UNCHANGED <<paths, repoType, gitCmdsRuns, spawned, wg, errLock, errorList,
                   fileContentMap, upc, ulocal, usnap, storeOrder>>
    /\ UNCHANGED notMergeVars

MergeNext ==
    \/ GetCodeHost
    \/ RunGitCmds
    \/ Spawn
    \/ Wait
    \/ CheckErrors
    \/ MergeContents
    \/ \E u \in Units : DownloadFile(u)
    \/ \E u \in Units : ReadFile(u)
    \/ \E u \in Units : Lock(u)
    \/ \E u \in Units : AppendRead(u)
    \/ \E u \in Units : AppendWrite(u)
    \/ \E u \in Units : Unlock(u)
    \/ \E u \in Units : Store(u)
    \/ \E u \in Units : Done(u)

\* the steps of the calling goroutine
CallerNext ==
    \/ GetCodeHost
    \/ RunGitCmds
    \/ Spawn
    \/ Wait
    \/ CheckErrors
    \/ MergeContents

\* the steps of the goroutine started with index u
UnitNext(u) ==
    /\ u \in Units
    /\ \/ DownloadFile(u)
       \/ ReadFile(u)
       \/ Lock(u)
       \/ AppendRead(u)
       \/ AppendWrite(u)
       \/ Unlock(u)
       \/ Store(u)
       \/ Done(u)

\* the scheduler lets every goroutine that can take a step take one, and
\* every call a goroutine makes returns
MergeFairness ==
    /\ WF_vars(CallerNext)
    /\ \A u \in 0..(MaxPaths - 1) : WF_vars(UnitNext(u))

-----------------------------------------------------------------------------
(* SyncYamlFromSource *)

\* setting.SourceFromGitRepo and setting.SourceFromVariableSet
SourceFromGitRepo == "repo"
SourceFromVariableSet == "variableSet"

\* the values of CustomYaml.Source: the default, the two above, and one more
Sources == {"", SourceFromGitRepo, SourceFromVariableSet, "customEdit"}

\* CustomYaml.SourceDetail, by what service.UnMarshalSourceDetail makes of it:
\* an error, a detail whose GitRepoConfig is nil, a detail with a GitRepoConfig
SourceDetails == {"malformed", "no_repo_config", "repo_config"}

\* the nil *CustomYaml
NilYamlData ==
    [present |-> FALSE, Source |-> "", AutoSync |-> FALSE, SourceDetail |-> "no_repo_config"]

\* the yamlData arguments
YamlDatas ==
    {NilYamlData} \cup
    [present : {TRUE}, Source : Sources, AutoSync : BOOLEAN, SourceDetail : SourceDetails]

\* A values file's text: the document it parses to (the set of its
\* <<key, value>> pairs; valid = FALSE when it does not parse) and its layout
\* (key order, white space).  Two texts are the same string when all three
\* fields agree.
EmptyString == [valid |-> TRUE, kv |-> {}, layout |-> 0]

YamlTexts ==
    {[valid |-> TRUE, kv |-> {<<"image", "v1">>, <<"replicas", "3">>}, layout |-> 1],
     [valid |-> TRUE, kv |-> {<<"image", "v1">>, <<"replicas", "3">>}, layout |-> 2],
     [valid |-> TRUE, kv |-> {<<"image", "v2">>, <<"replicas", "3">>}, layout |-> 1],
     [valid |-> FALSE, kv |-> {}, layout |-> 1]}

\* yamlutil.Equal: the documents of two texts are compared, an error when a
\* text does not parse
YamlEqual(a, b) ==
    IF ~a.valid \/ ~b.valid
      THEN [equal |-> FALSE, err |-> "compare_failed"]
      ELSE [equal |-> a.kv = b.kv, err |-> "nil"]

\* fromGitRepo
fromGitRepo(source) ==
    IF source = "" THEN TRUE
    ELSE IF source = SourceFromGitRepo THEN TRUE
    ELSE FALSE

\* a result of SyncYamlFromSource
SyncResult(changed, value, err) == [changed |-> changed, value |-> value, err |-> err]

\* SyncDisabled without the test of AutoSync
SyncDisabled_NilOnly(data) == ~data.present

\* the first test of SyncYamlFromSource: yamlData == nil || !yamlData.AutoSync
SyncDisabled(data) == ~data.present \/ ~data.AutoSync

\* CompareAndReturn comparing the two texts as strings
CompareAndReturn_ByteWise(fetched, cur) ==
    IF fetched = cur
      THEN SyncResult(FALSE, EmptyString, "nil")
      ELSE SyncResult(TRUE, fetched, "nil")

\* the end of syncYamlFromVariableSet and of syncYamlFromGit:
\*   equal, err := yamlutil.Equal(fetched, curValue)
\*   if err != nil || equal { return false, "", err }
\*   return true, fetched, nil
CompareAndReturn(fetched, cur) ==
    LET r == YamlEqual(fetched, cur) IN
    IF r.err # "nil" \/ r.equal
      THEN SyncResult(FALSE, EmptyString, r.err)
      ELSE SyncResult(TRUE, fetched, "nil")

\* FindErrorResult taking a variable set that is not found for no change
FindErrorResult_NotFoundBenign(err) ==
    IF err = "ErrNoDocuments"
      THEN SyncResult(FALSE, EmptyString, "nil")
      ELSE SyncResult(FALSE, EmptyString, err)

\* syncYamlFromVariableSet when Find returned err: return false, "", err
FindErrorResult(err) == SyncResult(FALSE, EmptyString, err)

\* NoRepoConfigResult returning an error
NoRepoConfigResult_Error == SyncResult(FALSE, EmptyString, "git repo config is nil")

\* syncYamlFromGit when sourceDetail.GitRepoConfig is nil: return false, "", nil
NoRepoConfigResult == SyncResult(FALSE, EmptyString, "nil")

\* the state of SyncYamlFromSource on entry, given its arguments
SyncEntry(data, cur) ==
    /\ yamlData = data
    /\ curValue = cur
    /\ spc = "entry"
    /\ slookup = "none"
    /\ sfetched = EmptyString
    /\ sops = <<>>
    /\ sret = SyncResult(FALSE, EmptyString, "nil")

\* the variables of SyncYamlFromSource while another part is modelled
SyncIdle == SyncEntry(NilYamlData, EmptyString)

\* return from SyncYamlFromSource
SyncReturn(result) ==
    /\ spc' = "returned"
    /\ sret' = result

\* SyncYamlFromSource: the test of yamlData and AutoSync, and the choice
\* between syncYamlFromVariableSet and syncYamlFromGit
SyncYamlFromSource ==
    /\ spc = "entry"
    /\ IF SyncDisabled(yamlData)
         THEN SyncReturn(SyncResult(FALSE, EmptyString, "nil"))
         ELSE /\ spc' = IF yamlData.Source = SourceFromVariableSet
                          THEN "variableSet" ELSE "git"
              /\ UNCHANGED sret
    /\ UNCHANGED <<yamlData, curValue, slookup, sfetched, sops>>
    /\ UNCHANGED notSyncVars

\* syncYamlFromVariableSet: the lookup of the variable set (not found, another
\* failure, or found with its VariableYaml), then the comparison
syncYamlFromVariableSet ==
    /\ spc = "variableSet"
    /\ IF yamlData.Source # SourceFromVariableSet
         THEN SyncReturn(SyncResult(FALSE, EmptyString, "nil"))
              /\ UNCHANGED <<slookup, sfetched, sops>>
         ELSE \E found \in {"ErrNoDocuments", "find_failed", "found"} :
                /\ slookup' = found
                /\ IF found # "found"
                  THEN /\ sops' = Append(sops, "Find")
                       /\ SyncReturn(FindErrorResult(found))
                       /\ UNCHANGED sfetched
                  ELSE \E v \in YamlTexts :
                         /\ sops' = sops \o <<"Find", "Equal">>
                         /\ sfetched' = v
                         /\ SyncReturn(CompareAndReturn(v, curValue))
    /\ UNCHANGED <<yamlData, curValue>>
    /\ UNCHANGED notSyncVars

\* syncYamlFromGit up to the download: the test of the origin, the decoding
\* of the source detail and the test of its GitRepoConfig
syncYamlFromGit ==
    /\ spc = "git"
    /\ IF ~fromGitRepo(yamlData.Source)
         THEN SyncReturn(SyncResult(FALSE, EmptyString, "nil")) /\ UNCHANGED sops
         ELSE /\ sops' = Append(sops, "UnMarshalSourceDetail")
              /\ IF yamlData.SourceDetail = "malformed"
                   THEN SyncReturn(SyncResult(FALSE, EmptyString, "unmarshal_failed"))
                   ELSE IF yamlData.SourceDetail = "no_repo_config"
                     THEN SyncReturn(NoRepoConfigResult)
                     ELSE spc' = "download" /\ UNCHANGED sret
    /\ UNCHANGED <<yamlData, curValue, slookup, sfetched>>
    /\ UNCHANGED notSyncVars

\* syncYamlFromGit from the download on: fsservice.DownloadFileFromSource
\* (an error, or the file's text), then the comparison
syncDownloadAndCompare ==
    /\ spc = "download"
    /\ \E ok \in BOOLEAN :
         IF ~ok
           THEN /\ sops' = Append(sops, "DownloadFileFromSource")
                /\ SyncReturn(SyncResult(FALSE, EmptyString, "download_failed"))
                /\ UNCHANGED sfetched
           ELSE \E v \in YamlTexts :
                  /\ sops' = sops \o <<"DownloadFileFromSource", "Equal">>
                  /\ sfetched' = v
                  /\ SyncReturn(CompareAndReturn(v, curValue))
    /\ UNCHANGED <<yamlData, curValue, slookup>>
    /\ UNCHANGED notSyncVars

SyncNext ==
    \/ SyncYamlFromSource
    \/ syncYamlFromVariableSet
    \/ syncYamlFromGit
    \/ syncDownloadAndCompare

-----------------------------------------------------------------------------
(* maskSecretEnvs *)

\* A string is the sequence of its characters.

\* the characters of the messages
Alphabet == {"a", "b", "=", "*"}

\* the strings of at most n characters
Strings(n) == UNION {[1..k -> Alphabet] : k \in 0..n}

\* the entries of secretEnvs: "", "a", "=a", "a=", "a=b=a", "b=a", "a=a",
\* "a=*", "b=ab"
SecretEntries ==
    {<<>>, <<"a">>, <<"=", "a">>, <<"a", "=">>, <<"a", "=", "b", "=", "a">>,
     <<"b", "=", "a">>, <<"a", "=", "a">>, <<"a", "=", "*">>,
     <<"b", "=", "a", "b">>}

\* the lists of at most n entries
EntryLists(n) == UNION {[1..k -> SecretEntries] : k \in 0..n}

\* secretEnvMask = "********"
secretEnvMask == <<"*", "*", "*", "*", "*", "*", "*", "*">>

\* old occurs in s at position p
OccursAt(s, old, p) ==
    /\ p >= 1
    /\ p + Len(old) - 1 <= Len(s)
    /\ SubSeq(s, p, p + Len(old) - 1) = old

\* strings.Index(s, old) + 1: the position of the first occurrence, 0 for none
Index(s, old) ==
    IF \E p \in 1..(Len(s) + 1) : OccursAt(s, old, p)
      THEN CHOOSE p \in 1..(Len(s) + 1) :
             OccursAt(s, old, p) /\ \A q \in 1..(p - 1) : ~OccursAt(s, old, q)
      ELSE 0

\* Replace replacing the first occurrence only (n = 1)
Replace_FirstOnly(s, old, new) ==
    LET p == Index(s, old) IN
    IF p = 0 THEN s
    ELSE SubSeq(s, 1, p - 1) \o new \o SubSeq(s, p + Len(old), Len(s))

\* strings.Replace(s, old, new, -1) for a non-empty old: the non-overlapping
\* occurrences of old, found from left to right, are replaced by new
RECURSIVE Replace(_, _, _)
Replace(s, old, new) ==
    LET p == Index(s, old) IN
    IF p = 0 \/ Len(old) = 0 THEN s
    ELSE SubSeq(s, 1, p - 1) \o new \o Replace(SubSeq(s, p + Len(old), Len(s)), old, new)

\* strings.Split(s, sep) for a separator of one character
RECURSIVE Split(_, _)
Split(s, sep) ==
    LET p == Index(s, <<sep>>) IN
    IF p = 0 THEN <<s>>
    ELSE <<SubSeq(s, 1, p - 1)>> \o Split(SubSeq(s, p + 1, Len(s)), sep)

\* strings.Join(parts, sep) for a separator of one character
RECURSIVE Join(_, _)
Join(parts, sep) ==
    IF Len(parts) = 0 THEN <<>>
    ELSE IF Len(parts) = 1 THEN parts[1]
    ELSE parts[1] \o <<sep>> \o Join(Tail(parts), sep)

\* SecretOf splitting the entry at its first "=" only (strings.SplitN(val, "=", 2))
SecretOf_SplitFirst(val) ==
    LET p == Index(val, <<"=">>)
        sl == IF p = 0 THEN <<val>>
              ELSE <<SubSeq(val, 1, p - 1), SubSeq(val, p + 1, Len(val))>> IN
    IF Len(val) = 0 THEN [skip |-> TRUE, value |-> <<>>]
    ELSE IF Len(sl) # 2 THEN [skip |-> TRUE, value |-> <<>>]
    ELSE IF Len(sl[1]) = 0 \/ Len(sl[2]) = 0 THEN [skip |-> TRUE, value |-> <<>>]
    ELSE [skip |-> FALSE, value |-> Join(Tail(sl), "=")]

\* SecretOf masking the whole entry, key included
SecretOf_WholeEntry(val) ==
    LET sl == Split(val, "=") IN
    IF Len(val) = 0 THEN [skip |-> TRUE, value |-> <<>>]
    ELSE IF Len(sl) # 2 THEN [skip |-> TRUE, value |-> <<>>]
    ELSE IF Len(sl[1]) = 0 \/ Len(sl[2]) = 0 THEN [skip |-> TRUE, value |-> <<>>]
    ELSE [skip |-> FALSE, value |-> val]

\* the body of the loop of maskSecretEnvs up to the call of strings.Replace:
\* whether the entry val is passed over, and the string to replace if not
SecretOf(val) ==
    LET sl == Split(val, "=") IN
    IF Len(val) = 0 THEN [skip |-> TRUE, value |-> <<>>]
    ELSE IF Len(sl) # 2 THEN [skip |-> TRUE, value |-> <<>>]
    ELSE IF Len(sl[1]) = 0 \/ Len(sl[2]) = 0 THEN [skip |-> TRUE, value |-> <<>>]
    ELSE [skip |-> FALSE, value |-> Join(Tail(sl), "=")]

\* maskSecretEnvs(message, secretEnvs): the loop over the entries, in order
RECURSIVE maskSecretEnvs(_, _)
maskSecretEnvs(msg, envs) ==
    IF Len(envs) = 0 THEN msg
    ELSE LET secret == SecretOf(envs[1])
             out == IF secret.skip THEN msg
                    ELSE Replace(msg, secret.value, secretEnvMask) IN
         maskSecretEnvs(out, Tail(envs))

\* maskSecret(secrets, message): the loop over the secrets, in order
RECURSIVE maskSecret(_, _)
maskSecret(secrets, msg) ==
    IF Len(secrets) = 0 THEN msg
    ELSE LET val == secrets[1]
             out == IF Len(val) = 0 THEN msg
                    ELSE Replace(msg, val, secretEnvMask) IN
         maskSecret(Tail(secrets), out)

\* the state before a call of maskSecretEnvs, given its arguments
MaskEntry(msg, envs) ==
    /\ message = msg
    /\ secretEnvs = envs
    /\ kpc = "call"
    /\ masked = <<>>

\* the variables of maskSecretEnvs while another part is modelled
MaskIdle == MaskEntry(<<>>, <<>>)

\* the call of maskSecretEnvs
MaskCall ==
    /\ kpc = "call"
    /\ masked' = maskSecretEnvs(message, secretEnvs)
    /\ kpc' = "returned"
    /\ UNCHANGED <<message, secretEnvs>>
    /\ UNCHANGED notMaskVars

\* the call of maskSecret, the entries of the list taken as the secrets
MaskSecretCall ==
    /\ kpc = "call"
    /\ masked' = maskSecret(secretEnvs, message)
    /\ kpc' = "returnedSecret"
    /\ UNCHANGED <<message, secretEnvs>>
    /\ UNCHANGED notMaskVars

MaskNext == MaskCall \/ MaskSecretCall

-----------------------------------------------------------------------------
(* handleCmdOutput *)

\* the lines of a step's output: "a\n", "b=a\n", "\n"
OutLines == {<<"a", "\n">>, <<"b", "=", "a", "\n">>, <<"\n">>}

\* what follows the last "\n" of the output: nothing, or the unterminated "a"
OutTails == {<<>>, <<"a">>}

\* the concatenation of a sequence of strings
RECURSIVE Concat(_)
Concat(chunks) ==
    IF Len(chunks) = 0 THEN <<>> ELSE chunks[1] \o Concat(Tail(chunks))

\* the outputs of at most n lines, with or without an unterminated end
Streams(n) ==
    {Concat(ls) \o t : ls \in UNION {[1..k -> OutLines] : k \in 0..n}, t \in OutTails}

\* the secretEnvs given to handleCmdOutput: none, "b=a", or "a=a" and "a=b=a"
OutSecretEnvs ==
    {<<>>, <<<<"b", "=", "a">>>>, <<<<"a", "=", "a">>, <<"a", "=", "b", "=", "a">>>>}

\* reader.ReadBytes('\n') has a whole line to return
HasLine(p) == Index(p, <<"\n">>) # 0

\* the line reader.ReadBytes('\n') returns: up to the first "\n", "\n" included
ReadBytes(p) == SubSeq(p, 1, Index(p, <<"\n">>))

\* what is left in the pipe after that line
AfterReadBytes(p) == SubSeq(p, Index(p, <<"\n">>) + 1, Len(p))

\* AfterWrite leaving the loop when util.WriteFile failed
AfterWrite_AbortOnFailure(ok) == IF ok THEN "reading" ELSE "returned"

\* where handleCmdOutput goes on after util.WriteFile returned: a failure is
\* logged as a warning and the loop goes on
AfterWrite(ok) == "reading"

\* util.WriteFile(logFile, data, 0700): data is appended to the file; when
\* the call fails the file is as it was
WriteFile(file, data, ok) == IF ok THEN Append(file, data) ELSE file

\* the state on entry of handleCmdOutput, given its arguments
HandleEntry(p, persist, envs) ==
    /\ pipe = p
    /\ needPersistentLog = persist
    /\ outSecretEnvs = envs
    /\ hpc = "reading"
    /\ readErr = FALSE
    /\ consumed = <<>>
    /\ discarded = <<>>
    /\ stdout = <<>>
    /\ logFile = <<>>
    /\ writes = <<>>

\* the variables of handleCmdOutput while another part is modelled
HandleIdle == HandleEntry(<<>>, FALSE, <<>>)

\* one turn of the loop without persistence: a line is read and printed masked
PrintLine ==
    /\ hpc = "reading"
    /\ HasLine(pipe)
    /\ ~needPersistentLog
    /\ LET lineBytes == ReadBytes(pipe) IN
         /\ pipe' = AfterReadBytes(pipe)
         /\ consumed' = Append(consumed, lineBytes)
         /\ stdout' = Append(stdout, maskSecretEnvs(lineBytes, outSecretEnvs))
    /\ UNCHANGED <<needPersistentLog, outSecretEnvs, hpc, readErr, discarded, logFile,
                   writes>>
    /\ UNCHANGED notHandleVars

\* one turn of the loop with persistence: a line is read, printed masked, and
\* lineBytes is handed to util.WriteFile, which succeeds or fails
PersistLine ==
    /\ hpc = "reading"
    /\ HasLine(pipe)
    /\ needPersistentLog
    /\ \E ok \in BOOLEAN :
         LET lineBytes == ReadBytes(pipe) IN
         /\ pipe' = AfterReadBytes(pipe)
         /\ consumed' = Append(consumed, lineBytes)
         /\ stdout' = Append(stdout, maskSecretEnvs(lineBytes, outSecretEnvs))
         /\ writes' = Append(writes, [data |-> lineBytes, ok |-> ok])
         /\ logFile' = WriteFile(logFile, lineBytes, ok)
         /\ hpc' = AfterWrite(ok)
    /\ UNCHANGED <<needPersistentLog, outSecretEnvs, readErr, discarded>>
    /\ UNCHANGED notHandleVars

\* ReadBytes reaches the end of the stream: it returns what is left of the
\* pipe together with io.EOF, and the loop ends with these bytes unused
ReadEOF ==
    /\ hpc = "reading"
    /\ ~HasLine(pipe)
    /\ pipe' = <<>>
    /\ discarded' = pipe
    /\ hpc' = "returned"
    /\ UNCHANGED <<needPersistentLog, outSecretEnvs, readErr, consumed, stdout,
                   logFile, writes>>
    /\ UNCHANGED notHandleVars

\* ReadBytes fails with another error: it is logged and the loop ends
ReadError ==
    /\ hpc = "reading"
    /\ readErr' = TRUE
    /\ hpc' = "returned"
    /\ UNCHANGED <<pipe, needPersistentLog, outSecretEnvs, consumed, discarded,
                   stdout, logFile, writes>>
    /\ UNCHANGED notHandleVars

HandleNext ==
    \/ PrintLine
    \/ PersistLine
    \/ ReadEOF
    \/ ReadError

-----------------------------------------------------------------------------
(* Specifications *)

\* RunSteps on every list of at most MaxSteps steps with types among RunTypes
RunInit == MergeIdle /\ SyncIdle /\ MaskIdle /\ HandleIdle /\ \E list \in StepLists(RunTypes, MaxSteps) : RunEntry(list)

RunSpec == RunInit /\ [][RunNext]_vars

\* RunSteps on every list of at most MaxKindSteps steps of any type
KindInit == MergeIdle /\ SyncIdle /\ MaskIdle /\ HandleIdle /\ \E list \in StepLists(StepTypes, MaxKindSteps) : RunEntry(list)

KindSpec == KindInit /\ [][RunNext]_vars

\* GetMergedYamlContent on every list of at most MaxPaths paths
MergeInit == RunEntry(<<>>) /\ SyncIdle /\ MaskIdle /\ HandleIdle /\ \E list \in PathLists(MaxPaths) : MergeEntry(list)

MergeSpec == MergeInit /\ [][MergeNext]_vars

\* the same call with every goroutine scheduled and every fetch returning
MergeLiveSpec == MergeInit /\ [][MergeNext]_vars /\ MergeFairness

\* SyncYamlFromSource on every yamlData and every curValue
SyncInit ==
    /\ RunEntry(<<>>) /\ MergeIdle /\ MaskIdle /\ HandleIdle
    /\ \E data \in YamlDatas, cur \in YamlTexts \cup {EmptyString} : SyncEntry(data, cur)

SyncSpec == SyncInit /\ [][SyncNext]_vars

\* maskSecretEnvs and maskSecret on every message of at most MaxTextLen
\* characters and every list of at most MaxEntries entries
MaskInit ==
    /\ RunEntry(<<>>) /\ MergeIdle /\ SyncIdle /\ HandleIdle
    /\ \E msg \in Strings(MaxTextLen), envs \in EntryLists(MaxEntries) : MaskEntry(msg, envs)

MaskSpec == MaskInit /\ [][MaskNext]_vars

\* handleCmdOutput on every output of at most MaxLines lines, with and without
\* persistence
HandleInit ==
    /\ RunEntry(<<>>) /\ MergeIdle /\ SyncIdle /\ MaskIdle
    /\ \E p \in Streams(MaxLines), persist \in BOOLEAN, envs \in OutSecretEnvs :
          HandleEntry(p, persist, envs)

HandleSpec == HandleInit /\ [][HandleNext]_vars

-----------------------------------------------------------------------------
(* Properties of RunSteps *)

\* the calls of runStep made for the step at position i
CallsOf(i) == {k \in 1..Len(calls) : calls[k].call.step = i}

\* runStep was called for the step at position i
Dispatched(i) == CallsOf(i) # {}

\* the call k of runStep failed: the type has no executor, the executor could
\* not be constructed, or its Run returned an error
CallFails(k) ==
    \/ steps[calls[k].call.step].StepType \notin KnownTypes
    \/ calls[k].call.outcome \in {"ctor_err", "run_err"}

\* a call made for the step at position i failed
StepFailed(i) == \E k \in CallsOf(i) : CallFails(k)

\* the error the failing call k returns
ErrorOfCall(k) ==
    [kind |-> IF steps[calls[k].call.step].StepType \notin KnownTypes THEN "unknown_type"
              ELSE IF calls[k].call.outcome = "ctor_err" THEN "ctor" ELSE "run",
     at |-> calls[k].call.step]

\* the error of the failing call made for the step latest in the list, nil
\* when no call failed
LastFailure ==
    LET failing == {k \in 1..Len(calls) : CallFails(k)} IN
    IF failing = {} THEN NoErr
    ELSE ErrorOfCall(CHOOSE k \in failing :
                       \A m \in failing : calls[m].call.step <= calls[k].call.step)

\* C1: a step with onFailure=false that comes after an earlier failed step is
\* never dispatched: runStep is called for such a step only when no step
\* before it in the list has failed.
C1_NoDispatchAfterFailure ==
    \A k \in 1..Len(calls) :
      ~steps[calls[k].call.step].Onfailure
        => \A j \in 1..(calls[k].call.step - 1) : ~StepFailed(j)

\* C1 witness: RunSteps returned, having passed over a step with
\* onFailure=false that follows a failed step.
C1_Witness ==
    /\ rpc = "returned"
    /\ \E i, j \in 1..Len(steps) :
         i < j /\ StepFailed(i) /\ ~steps[j].Onfailure /\ ~Dispatched(j)

\* C2: every step with onFailure=true is dispatched exactly once: once the
\* loop has passed it, runStep has been called for it exactly once (and not
\* at all before the loop reaches it), whatever failed before.
C2_OnfailureDispatchedOnce ==
    \A i \in 1..Len(steps) :
      steps[i].Onfailure
        => Cardinality(CallsOf(i)) = (IF i < idx THEN 1 ELSE 0)

\* C2 witness: RunSteps returned after a step of unknown type failed, a later
\* onFailure=true step was dispatched and failed, and a yet later
\* onFailure=true step was dispatched once.
C2_Witness ==
    /\ rpc = "returned"
    /\ \E i, j, k \in 1..Len(steps) :
         /\ i < j /\ j < k
         /\ steps[i].StepType \notin KnownTypes /\ StepFailed(i)
         /\ steps[j].Onfailure /\ StepFailed(j)
         /\ steps[k].Onfailure /\ Cardinality(CallsOf(k)) = 1

\* C3: RunSteps returns nil if and only if no dispatched step failed
\* (unknown type, constructor error or Run error), the empty list included.
C3_NilIffNoFailure ==
    rpc = "returned"
      => ((ret = NoErr) <=> (\A k \in 1..Len(calls) : ~CallFails(k)))

\* C3 witness: RunSteps returned a non-nil error after a step whose executor
\* could not be constructed, and a later dispatched step succeeded.
C3_Witness ==
    /\ rpc = "returned"
    /\ ret # NoErr
    /\ \E k, m \in 1..Len(calls) :
         /\ k < m
         /\ calls[k].call.outcome = "ctor_err" /\ CallFails(k)
         /\ ~CallFails(m)

\* C4: the recorded error is at every point the error of the most recent
\* failed step, a later success leaving it as it is, and RunSteps returns it.
C4_ReturnsLastFailure ==
    /\ respErr = LastFailure
    /\ rpc = "returned" => ret = LastFailure

\* C4 witness: A succeeds, B (onFailure=false) fails, C (onFailure=true)
\* succeeds, and RunSteps returned the error of B.
C4_Witness ==
    /\ rpc = "returned"
    /\ Len(steps) = 3 /\ Len(calls) = 3
    /\ ~CallFails(1) /\ CallFails(2) /\ ~CallFails(3)
    /\ ~steps[2].Onfailure /\ steps[3].Onfailure
    /\ ret = ErrorOfCall(2)

\* the eight kinds of step the data model enumerates
EnumeratedKinds ==
    {"shell", "git", "docker_build", "tool_install", "archive", "junit_report",
     "tar_archive", "sonar_check"}

\* the executor of each kind of step, by the tag of the data model and by the
\* tag of the switch
ExecutorOfKind ==
    [kind \in EnumeratedKinds \cup KnownTypes |->
       CASE kind = "shell"        -> "ShellStep"
         [] kind = "git"          -> "GitStep"
         [] kind = "docker_build" -> "DockerBuildStep"
         [] kind = "tool_install" -> "ToolInstallStep"
         [] kind = "tools"        -> "ToolInstallStep"
         [] kind = "archive"      -> "ArchiveStep"
         [] kind = "junit_report" -> "JunitReportStep"
         [] kind = "tar_archive"  -> "TararchiveStep"
         [] kind = "sonar_check"  -> "SonarCheckStep"]

\* the dispatched steps with a type among kinds went to the executor of their
\* kind and were not reported as of unknown type
DispatchedToOwnExecutor(kinds) ==
    \A k \in 1..Len(calls) :
      LET type == steps[calls[k].call.step].StepType IN
      type \in kinds
        => /\ calls[k].call.executor = ExecutorOfKind[type]
           /\ calls[k].err.kind # "unknown_type"

\* C5 as stated: a step of any of the eight enumerated kinds (tool_install
\* among them) is dispatched to the executor of that kind and never reported
\* as an unknown step type.
C5_EnumeratedKindsDispatched == DispatchedToOwnExecutor(EnumeratedKinds)

\* C5 as amended: a step typed shell, git, docker_build, tools, archive,
\* junit_report, tar_archive or sonar_check is dispatched to the executor of
\* that kind and never reported as unknown; a step typed tool_install has no
\* executor and is reported as an unknown step type.
C5_SwitchTagsDispatched ==
    /\ DispatchedToOwnExecutor(KnownTypes)
    /\ \A k \in 1..Len(calls) :
         steps[calls[k].call.step].StepType = "tool_install"
           => /\ calls[k].call.executor = "none"
              /\ calls[k].err.kind = "unknown_type"

\* C5 witness: a step typed tools ran on the tool-install executor and a step
\* typed tool_install was reported as unknown.
C5_Witness ==
    \E k, m \in 1..Len(calls) :
      /\ steps[calls[k].call.step].StepType = "tools"
      /\ calls[k].call.executor = "ToolInstallStep" /\ calls[k].ran
      /\ steps[calls[m].call.step].StepType = "tool_install"
      /\ calls[m].err.kind = "unknown_type"

\* C6: a step of unrecognised type fails alone: no executor is constructed or
\* run for it, its call returns the unknown-type error, hasFailed is true from
\* then on, each later step the loop has passed was dispatched exactly when it
\* is an onFailure=true step, and RunSteps returns only after the whole list.
C6_UnknownTypeFailsStepOnly ==
    /\ \A k \in 1..Len(calls) :
         LET i == calls[k].call.step IN
         steps[i].StepType \notin KnownTypes
           => /\ calls[k].call.executor = "none"
              /\ ~calls[k].constructed /\ ~calls[k].ran
              /\ calls[k].err = [kind |-> "unknown_type", at |-> i]
              /\ hasFailed
              /\ \A j \in (i + 1)..(idx - 1) : Dispatched(j) <=> steps[j].Onfailure
    /\ rpc = "returned" => idx = Len(steps) + 1

\* C6 witness: RunSteps returned after a step of unknown type was dispatched,
\* a later onFailure=false step was skipped and a later onFailure=true step
\* was dispatched.
C6_Witness ==
    /\ rpc = "returned"
    /\ \E i, j, k \in 1..Len(steps) :
         /\ i < j /\ i < k
         /\ steps[i].StepType \notin KnownTypes /\ Dispatched(i)
         /\ ~steps[j].Onfailure /\ ~Dispatched(j)
         /\ steps[k].Onfailure /\ Dispatched(k)

\* C20: RunSteps takes the steps in list order, one at a time: the calls of
\* runStep, each of which has returned before the next is made, are for
\* strictly increasing positions of the list, all of them passed by the loop,
\* so no step is dispatched twice and the dispatched steps are a subsequence
\* of the list.
C20_DispatchedInListOrder ==
    /\ idx \in 1..(Len(steps) + 1)
    /\ \A k \in 1..Len(calls) : calls[k].call.step \in 1..(idx - 1)
    /\ \A k, m \in 1..Len(calls) : k < m => calls[k].call.step < calls[m].call.step
    /\ \A i \in 1..Len(steps) : Cardinality(CallsOf(i)) <= 1

\* C20 witness: RunSteps returned after it dispatched the first and the last
\* step of a list of three and passed over the one between them.
C20_Witness ==
    /\ rpc = "returned"
    /\ Len(steps) = 3
    /\ Len(calls) = 2
    /\ calls[1].call.step = 1
    /\ calls[2].call.step = 3
    /\ ~Dispatched(2)

\* C21: throughout a run of RunSteps hasFailed is true exactly when respErr,
\* the last error, is non-nil, and no step of RunSteps takes hasFailed from
\* true back to false.
C21_OutcomeMonotoneAndConsistent ==
    /\ [](hasFailed <=> respErr # NoErr)
    /\ [][hasFailed => hasFailed']_vars

\* C21 witness: after a call of runStep failed, a later call for an
\* onFailure=true step succeeded, and hasFailed and respErr still stand.
C21_Witness ==
    /\ hasFailed
    /\ respErr # NoErr
    /\ \E k, m \in 1..Len(calls) :
          /\ k < m
          /\ calls[k].err # NoErr
          /\ calls[m].err = NoErr

-----------------------------------------------------------------------------
(* Properties of GetMergedYamlContent *)

\* the goroutines whose fetch returned an error
FailedUnits == {u \in Units : ulocal[u].status = "fail"}

\* the file an error entry names: the last component of its path
PathNamed(entry) == entry.path[Len(entry.path)]

\* list holds one entry for each failed goroutine, naming its path, and
\* nothing else
OneEntryPerFailure(list) ==
    /\ Len(list) = Cardinality(FailedUnits)
    /\ \A p \in PathNames :
         Cardinality({k \in 1..Len(list) : PathNamed(list[k]) = p})
           = Cardinality({u \in FailedUnits : PathOf(u) = p})

\* the fetched contents in the order of the paths argument
InCallerOrder == [i \in 1..Len(paths) |-> ulocal[i - 1].content]

\* C7: no partial output: once a fetch has failed yamlutil.Merge is never
\* called, and the call returns empty content with a non-nil error, however
\* many fetches succeeded.
C7_NoPartialOutput ==
    FailedUnits # {}
      => /\ mergeCalls = <<>>
         /\ mpc = "returned" => (mret.content = EmptyContent /\ mret.err # NilErr)

\* C7 witness: the call returned while one fetch had failed and another had
\* stored its content.
C7_Witness ==
    /\ mpc = "returned"
    /\ FailedUnits # {}
    /\ DOMAIN fileContentMap # {}

\* C8: after the join the error list, and the aggregated error returned,
\* hold exactly one entry for each failed fetch, naming its path, and none
\* for a fetch that succeeded, under every interleaving of the appends.
C8_OneEntryPerFailedPath ==
    /\ (mpc \in {"check", "merge", "returned"}) => OneEntryPerFailure(errorList)
    /\ (mpc = "returned" /\ FailedUnits # {})
         => (mret.err.kind = "multierror" /\ OneEntryPerFailure(mret.err.errors))

\* C8 witness: two fetches of different paths failed, the later one appended
\* first, and the returned error holds both entries.
C8_Witness ==
    /\ mpc = "returned"
    /\ Len(paths) = 2 /\ FailedUnits = {0, 1} /\ PathOf(0) # PathOf(1)
    /\ Len(mret.err.errors) = 2
    /\ PathNamed(mret.err.errors[1]) = PathOf(1)
    /\ PathNamed(mret.err.errors[2]) = PathOf(0)

\* C9: every call of yamlutil.Merge is handed the fetched fragments in the
\* order of the paths argument, whatever the order in which they were stored,
\* and the content returned is the merge of the fragments in that order.
C9_MergedInCallerOrder ==
    /\ \A k \in 1..Len(mergeCalls) : mergeCalls[k] = InCallerOrder
    /\ (mpc = "returned" /\ mret.err = NilErr)
         => /\ Len(mergeCalls) = 1
            /\ mret.content = YamlMerge(InCallerOrder).content

\* C9 witness: two different fragments were stored in the reverse of the
\* caller's order and the call returned their merge.
C9_Witness ==
    /\ mpc = "returned" /\ mret.err = NilErr
    /\ storeOrder = <<1, 0>>
    /\ ulocal[0].content # ulocal[1].content
    /\ mret.content # YamlMerge(<<ulocal[1].content, ulocal[0].content>>).content

\* C10: the caller inspects the error list, merges and returns only after
\* every goroutine it started has finished: past wg.Wait() every started
\* goroutine is done, and so is every goroutine once the loop is over.
C10_JoinIsBarrier ==
    /\ (mpc \in {"check", "merge", "returned"})
         => \A u \in Units : upc[u] \in {"unstarted", "done"}
    /\ (mpc \in {"check", "merge"}) => \A u \in Units : upc[u] = "done"
    /\ mergeCalls # <<>> => \A u \in Units : upc[u] = "done"

\* C10 witness: one goroutine has failed and finished while another is still
\* fetching, and the caller, the loop over, is still at wg.Wait().
C10_Witness ==
    /\ mpc = "spawn" /\ spawned = Len(paths)
    /\ \E u, v \in Units :
         /\ upc[u] = "done" /\ ulocal[u].status = "fail"
         /\ upc[v] = "fetch"

\* C23: command.RunGitCmds runs at most once, only for a repository of type
\* other, and there it has run, once and with success, before the first
\* goroutine is started; when GetCodeHost or RunGitCmds fails the call
\* returns ErrListRepoDir and no goroutine was ever started.
C23_GitCmdsOnceBeforeFanOut ==
    /\ gitCmdsRuns <= 1
    /\ repoType # "other" => gitCmdsRuns = 0
    /\ (repoType = "other" /\ (spawned > 0 \/ mpc \in {"spawn", "check", "merge"}))
         => gitCmdsRuns = 1
    /\ repoType = "unset" => spawned = 0
    /\ (mpc = "returned" /\ mret.err = ErrListRepoDir)
         => /\ spawned = 0
            /\ \A u \in Units : upc[u] = "unstarted"
            /\ mret.content = EmptyContent

\* C23 witness: for a repository of type other RunGitCmds has run once and
\* both goroutines were started after it.
C23_Witness ==
    /\ repoType = "other"
    /\ gitCmdsRuns = 1
    /\ spawned = 2
    /\ \E u \in Units : upc[u] = "done"

\* the join is behind: wg.Wait() has returned
AfterJoin ==
    \/ mpc \in {"check", "merge"}
    \/ mpc = "returned" /\ mret.err # ErrListRepoDir

\* the goroutines that have stored a content
StoredUnits == {storeOrder[k] : k \in 1..Len(storeOrder)}

\* the entries of the error list that name the path of index u
EntriesNaming(u) == {k \in 1..Len(errorList) : PathNamed(errorList[k]) = PathOf(u)}

\* C24: the keys of fileContentMap are at all times the indexes of the
\* goroutines that stored, each holding the content its own goroutine
\* fetched; after the join every index has either its content under its own
\* key and no error entry of its own, or no content and its one error entry
\* (the entries naming a path are as many as the failed indexes with that path).
C24_OneResultPerIndex ==
    /\ DOMAIN fileContentMap = StoredUnits
    /\ \A u \in StoredUnits : fileContentMap[u] = ulocal[u].content
    /\ AfterJoin =>
         \A u \in Units :
            /\ (u \in DOMAIN fileContentMap) # (u \in FailedUnits)
            /\ Cardinality(EntriesNaming(u))
                 = Cardinality({v \in FailedUnits : PathOf(v) = PathOf(u)})
    /\ AfterJoin => Len(errorList) = Cardinality(FailedUnits)

\* C24 witness: after the join index 0 has its error entry and no content,
\* and index 1, of another path, has its content and no error entry.
C24_Witness ==
    /\ AfterJoin
    /\ Len(paths) = 2 /\ PathOf(0) # PathOf(1)
    /\ FailedUnits = {0}
    /\ DOMAIN fileContentMap = {1}
    /\ Cardinality(EntriesNaming(0)) = 1
    /\ EntriesNaming(1) = {}

\* the goroutines that were started and have not yet called wg.Done()
LiveUnits == {u \in Units : upc[u] \notin {"unstarted", "done"}}

\* C25: when every goroutine is scheduled and every fetch returns,
\* GetMergedYamlContent returns in the end; the counter of the WaitGroup is
\* at all times the number of goroutines started and not finished, each
\* goroutine taking it down once on whichever path it leaves, so that
\* wg.Wait() is released once they are all done, at once for no path at all.
C25_EventuallyReturns ==
    /\ <>(mpc = "returned")
    /\ [](wg = Cardinality(LiveUnits))
    /\ [](mpc = "returned" => wg = 0)

\* C25 witness: the call returned after one goroutine left on its failure
\* path and the other on its success path, the counter back at zero.
C25_Witness ==
    /\ mpc = "returned"
    /\ Len(paths) = 2
    /\ \A u \in Units : upc[u] = "done"
    /\ \E u, v \in Units : ulocal[u].status = "fail" /\ ulocal[v].status = "ok"
    /\ wg = 0

-----------------------------------------------------------------------------
(* Properties of SyncYamlFromSource *)

\* (false, "", nil)
NoChange == [changed |-> FALSE, value |-> EmptyString, err |-> "nil"]

\* the source asks for synchronisation
AutoSynced == yamlData.present /\ yamlData.AutoSync

\* a value was fetched and compared with curValue
Compared == \E k \in 1..Len(sops) : sops[k] = "Equal"

\* two texts parse and parse to the same document
StructurallyEqual(a, b) == a.valid /\ b.valid /\ a.kv = b.kv

\* C11: when the source is nil or its AutoSync is false, SyncYamlFromSource
\* returns (false, "", nil) whatever the origin and the current value, and
\* calls no collaborator: no lookup, no decoding, no download.
C11_NoSyncWithoutAutoSync ==
    ~AutoSynced
      => /\ sops = <<>>
         /\ spc \in {"entry", "returned"}
         /\ spc = "returned" => sret = NoChange

\* C11 witness: the call returned for a variable-set source whose AutoSync
\* is false.
C11_Witness ==
    /\ spc = "returned"
    /\ yamlData.present /\ ~yamlData.AutoSync
    /\ yamlData.Source = SourceFromVariableSet

\* C12: for an auto-synced source SyncYamlFromSource returns changed = true
\* only after it fetched a value that is not structurally equal to curValue,
\* and then returns that value with a nil error; when the fetched value is
\* structurally equal it returns (false, "", nil), and when the comparison
\* fails it returns (false, "", the comparison's error).
C12_ChangedIffFetchedDiffers ==
    (spc = "returned" /\ AutoSynced)
      => /\ sret.changed
              => /\ Compared
                 /\ ~StructurallyEqual(sfetched, curValue)
                 /\ sret = [changed |-> TRUE, value |-> sfetched, err |-> "nil"]
         /\ Compared
              => IF ~sfetched.valid \/ ~curValue.valid
                   THEN sret = [changed |-> FALSE, value |-> EmptyString,
                                err |-> "compare_failed"]
                   ELSE IF sfetched.kv = curValue.kv
                     THEN sret = NoChange
                     ELSE sret = [changed |-> TRUE, value |-> sfetched, err |-> "nil"]

\* C12 witness: the variable set's value and curValue are different texts of
\* the same document, and the call returned (false, "", nil).
C12_Witness ==
    /\ spc = "returned" /\ AutoSynced
    /\ yamlData.Source = SourceFromVariableSet
    /\ Compared
    /\ sfetched # curValue /\ StructurallyEqual(sfetched, curValue)
    /\ sret = NoChange

\* C13: for an auto-synced source of the default or the repository origin
\* whose source detail holds no repository configuration, SyncYamlFromSource
\* returns (false, "", nil) and downloads nothing.
C13_NoRepoConfigIsNoChange ==
    (spc = "returned" /\ AutoSynced /\ yamlData.Source \in {"", SourceFromGitRepo}
       /\ yamlData.SourceDetail = "no_repo_config")
      => /\ sret = NoChange
         /\ \A k \in 1..Len(sops) : sops[k] # "DownloadFileFromSource"

\* C13 witness: the call returned for an auto-synced source of the default
\* origin without repository configuration, after decoding the source detail.
C13_Witness ==
    /\ spc = "returned" /\ AutoSynced
    /\ yamlData.Source = "" /\ yamlData.SourceDetail = "no_repo_config"
    /\ sops = <<"UnMarshalSourceDetail">>

\* C14 as stated: when the variable set of an auto-synced variable-set source
\* is not found, SyncYamlFromSource returns (false, "", nil); another failure
\* of the lookup is returned as an error.
C14_NotFoundIsBenign ==
    (spc = "returned" /\ AutoSynced /\ yamlData.Source = SourceFromVariableSet)
      => /\ slookup = "ErrNoDocuments" => sret = NoChange
         /\ slookup = "find_failed" => sret.err = "find_failed"

\* C14 as amended: every failure of the lookup, the variable set not being
\* found included, is returned as it is: (false, "", the lookup's error).
C14_LookupErrorReturned ==
    (spc = "returned" /\ AutoSynced /\ yamlData.Source = SourceFromVariableSet)
      => /\ slookup \in {"ErrNoDocuments", "find_failed"}
              => sret = [changed |-> FALSE, value |-> EmptyString, err |-> slookup]
         /\ slookup # "none"

\* C14 witness: the variable set was not found and the call returned the
\* lookup's error.
C14_Witness ==
    /\ spc = "returned" /\ AutoSynced
    /\ yamlData.Source = SourceFromVariableSet
    /\ slookup = "ErrNoDocuments"
    /\ sret.err = "ErrNoDocuments"


-----------------------------------------------------------------------------
(* Properties of maskSecretEnvs *)

\* the number of "=" characters of an entry
EqualsIn(val) == Cardinality({p \in 1..Len(val) : val[p] = "="})

\* the entry is exactly KEY=VALUE: one "=", a non-empty KEY, a non-empty VALUE
Qualifying(val) ==
    /\ EqualsIn(val) = 1
    /\ val[1] # "="
    /\ val[Len(val)] # "="

\* the position of the "=" of a qualifying entry
EqualsAt(val) == CHOOSE p \in 1..Len(val) : val[p] = "="

\* the KEY and the VALUE of a qualifying entry
KeyOf(val) == SubSeq(val, 1, EqualsAt(val) - 1)
ValueOf(val) == SubSeq(val, EqualsAt(val) + 1, Len(val))

\* the qualifying entries of secretEnvs, in their order
QualifyingEntries == SelectSeq(secretEnvs, Qualifying)

\* sub occurs somewhere in s
Contains(s, sub) == \E p \in 1..(Len(s) + 1) : OccursAt(s, sub, p)

\* the characters of a string
CharsOf(s) == {s[p] : p \in 1..Len(s)}

\* msg after the occurrences of each of the values, in order, gave way to the mask
RECURSIVE ReplaceEach(_, _)
ReplaceEach(msg, entries) ==
    IF Len(entries) = 0 THEN msg
    ELSE ReplaceEach(Replace(msg, ValueOf(entries[1]), secretEnvMask), Tail(entries))

\* C15: entries that are not exactly KEY=VALUE with a non-empty KEY and a
\* non-empty VALUE (the empty entry, an entry without "=", one with an empty
\* key or an empty value, one with a second "=") cause no replacement: a list
\* of such entries returns the message as it was, and in any list the result
\* is the one that the qualifying entries alone produce.
C15_NonQualifyingEntriesIgnored ==
    kpc = "returned" =>
        /\ (\A i \in 1..Len(secretEnvs) : ~Qualifying(secretEnvs[i])) => masked = message
        /\ masked = ReplaceEach(message, QualifyingEntries)

\* C15 witness: maskSecretEnvs returned for a list with the entry "a=b=a" and
\* no qualifying entry, on a message in which "b=a" and "a" occur.
C15_Witness ==
    /\ kpc = "returned"
    /\ \E i \in 1..Len(secretEnvs) : secretEnvs[i] = <<"a", "=", "b", "=", "a">>
    /\ \A i \in 1..Len(secretEnvs) : ~Qualifying(secretEnvs[i])
    /\ Contains(message, <<"b", "=", "a">>)
    /\ masked = message

\* C16 as stated: the returned text contains no occurrence of the VALUE of any
\* qualifying entry.
C16_NoValueInOutput ==
    kpc = "returned" =>
        \A i \in 1..Len(secretEnvs) :
            Qualifying(secretEnvs[i]) => ~Contains(masked, ValueOf(secretEnvs[i]))

\* C16 amended: the returned text contains no occurrence of the VALUE of any
\* qualifying entry whose VALUE has no "*" character in it.
C16_NoStarlessValueInOutput ==
    kpc = "returned" =>
        \A i \in 1..Len(secretEnvs) :
            (Qualifying(secretEnvs[i]) /\ "*" \notin CharsOf(ValueOf(secretEnvs[i])))
                => ~Contains(masked, ValueOf(secretEnvs[i]))

\* C16 witness: maskSecretEnvs returned for a message with two occurrences of
\* the VALUE of a qualifying entry, and the mask stands in the result.
C16_Witness ==
    /\ kpc = "returned"
    /\ \E i \in 1..Len(secretEnvs) :
          /\ Qualifying(secretEnvs[i])
          /\ "*" \notin CharsOf(ValueOf(secretEnvs[i]))
          /\ Cardinality({p \in 1..Len(message) :
                            OccursAt(message, ValueOf(secretEnvs[i]), p)}) >= 2
    /\ Contains(masked, secretEnvMask)

\* the occurrence of KEY= at position p of the message stands unchanged in the
\* result, between the masked text before it and the masked text after it
KeyKeptAt(key, p) ==
    masked = maskSecretEnvs(SubSeq(message, 1, p - 1), secretEnvs)
             \o key \o <<"=">>
             \o maskSecretEnvs(SubSeq(message, p + Len(key) + 1, Len(message)), secretEnvs)

\* no VALUE of a qualifying entry of the list has a character of KEY=
NoValueTouches(key) ==
    \A j \in 1..Len(secretEnvs) :
        Qualifying(secretEnvs[j])
            => CharsOf(ValueOf(secretEnvs[j])) \cap (CharsOf(key) \cup {"="}) = {}

PermutationsOf(list) ==
    {[i \in 1..Len(list) |-> list[f[i]]] :
        f \in {g \in [1..Len(list) -> 1..Len(list)] :
                 \A i, j \in 1..Len(list) : i # j => g[i] # g[j]}}

\* C26 as stated: what maskSecretEnvs returned, and what maskSecret returned,
\* is what the same call returns for the same entries listed in any other order.
C26_OrderIndependent ==
    /\ kpc = "returned" =>
          \A perm \in PermutationsOf(secretEnvs) : maskSecretEnvs(message, perm) = masked
    /\ kpc = "returnedSecret" =>
          \A perm \in PermutationsOf(secretEnvs) : maskSecret(perm, message) = masked

-----------------------------------------------------------------------------
(* Properties of handleCmdOutput *)

\* C18 as stated: with persistence, every line appended to the log file is the
\* masked form of a line of the output, the one the live sink received for it.
C18_LogFileLinesMasked ==
    needPersistentLog =>
        \A i \in 1..Len(logFile) :
            \E j \in 1..Len(consumed) :
                /\ logFile[i] = maskSecretEnvs(consumed[j], outSecretEnvs)
                /\ logFile[i] = stdout[j]

\* the calls of util.WriteFile that failed
FailedWrites == {i \in 1..Len(writes) : ~writes[i].ok}

\* C19: a failed write of the log file does not end the stream. With
\* persistence every line read so far went to the live sink, masked, and to
\* one call of util.WriteFile, whatever the earlier calls returned, and when
\* handleCmdOutput returned without a read failure the pipe was read to its end.
C19_WriteFailureDoesNotAbort ==
    /\ Len(stdout) = Len(consumed)
    /\ \A i \in 1..Len(consumed) : stdout[i] = maskSecretEnvs(consumed[i], outSecretEnvs)
    /\ needPersistentLog =>
          /\ Len(writes) = Len(consumed)
          /\ \A i \in 1..Len(consumed) : writes[i].data = consumed[i]
    /\ (hpc = "returned" /\ ~readErr) => pipe = <<>>

\* C19 witness: handleCmdOutput returned at the end of the stream after the
\* write of the first line failed and the write of a later line succeeded.
C19_Witness ==
    /\ hpc = "returned"
    /\ ~readErr
    /\ needPersistentLog
    /\ 1 \in FailedWrites
    /\ \E i \in 2..Len(writes) : writes[i].ok
    /\ Len(stdout) = Len(writes)
    /\ Len(logFile) < Len(writes)


\* what ReadBytes returned up to a clean end of the stream, line by line: the
\* terminated lines and then the unterminated end, if there is one
LinesRead == IF discarded = <<>> THEN consumed ELSE Append(consumed, discarded)

\* C22 as stated: when handleCmdOutput returned at a clean end of the stream,
\* the live sink holds every line read, masked, the last one included when it
\* does not end with a newline.
C22_EveryByteEmitted ==
    (hpc = "returned" /\ ~readErr) =>
        stdout = [i \in 1..Len(LinesRead) |-> maskSecretEnvs(LinesRead[i], outSecretEnvs)]

====
